---- MODULE Spec2Model ----
(***************************************************************************)
(* Model of GenericPrometheusCheck                                         *)
(* (datadog_checks/checks/prometheus/base_check.py).                       *)
(*                                                                         *)
(* Python dicts are functions/records, Python lists are sequences, None is *)
(* the string "None".  An operation that raises is a result record whose   *)
(* field `raised` names the exception class.                               *)
(***************************************************************************)
EXTENDS Integers, Sequences, FiniteSets, TLC

\* ------------------------------------------------------------------ bounds
MaxCalls == 3
MaxLabels == 2

\* ------------------------------------------------------------- Python glue
None == "None"

\* a Python value whose type matters to the code: None, a list or a dict
PyNone == [py |-> "None"]
PyList(l) == [py |-> "list", val |-> l]
PyDict(d) == [py |-> "dict", val |-> d]

\* dict.get(key, default)
DictGet(d, key, default) == IF key \in DOMAIN d THEN d[key] ELSE default

\* truth value of a Python list / dict: empty is falsy
Falsy(v) == Len(v) = 0

\* ------------------------------------------------------------------ inputs
Endpoints == {"u1", "u2"}
MetricLists == {<<>>, <<"up">>}

\* instance records: with / without the prometheus_url key, or with the key
\* bound to None
Instances ==
    {[metrics |-> m] : m \in MetricLists}
    \cup {[prometheus_url |-> u, metrics |-> m] :
             u \in Endpoints \cup {None}, m \in MetricLists}

\* what the `instances` constructor argument can be: None (the default), an
\* empty list, or a list of instance records
InstanceLists ==
    {PyNone, PyList(<<>>)}
    \cup {PyList(<<i>>) : i \in Instances}
    \cup {PyList(<<[prometheus_url |-> "u1", metrics |-> <<"up">>],
                   [prometheus_url |-> "u2", metrics |-> <<"up">>]>>)}

\* constructor arguments default_instances / default_namespace
DefaultSettings ==
    { [default_instances |-> <<>>, default_namespace |-> None],
      [default_instances |-> [foo |-> [metrics |-> <<"up">>]],
       default_namespace |-> "foo"] }

\* failures the external mixin can raise
MixinErrors == {"IOError"}
Outcomes == {"ok"} \cup MixinErrors

\* samples: metric.label is a list of (name, value) labels
LabelPool == {[name |-> "instance", value |-> "a"], [name |-> "job", value |-> "x"]}

RECURSIVE LabelLists(_)
LabelLists(n) ==
    IF n = 0 THEN {<<>>}
    ELSE LET shorter == LabelLists(n - 1)
         IN  shorter \cup {Append(l, x) : l \in shorter, x \in LabelPool}

Samples == {[label |-> l] : l \in LabelLists(MaxLabels)}

\* scraper configurations handed to _metric_tags
ScraperConfigs ==
    {[custom_tags |-> ct, exclude_labels |-> ex, labels_mapper |-> lm] :
        ct \in {<<>>, <<"env:prod">>},
        ex \in {<<>>, <<"job">>, <<"instance">>},
        lm \in {<<>>, [instance |-> "host"], [instance |-> "job"],
                [job |-> "task"]}}

MetricNames == {"up", "requests"}
Values == {1}
Hostnames == {None, "h1"}

\* what a caller passes as custom_tags to _submit_*: nothing (the default
\* None), a list of 'tag:value' strings as the docstrings say, or a scraper
\* configuration
SubmitConfigs ==
    { [custom_tags |-> <<>>, exclude_labels |-> <<>>, labels_mapper |-> <<>>],
      [custom_tags |-> <<"env:prod">>, exclude_labels |-> <<"job">>,
       labels_mapper |-> [instance |-> "host"]],
      [custom_tags |-> <<"env:prod">>, exclude_labels |-> <<"job">>,
       labels_mapper |-> [job |-> "task"]] }

CustomTagsArgs ==
    {PyNone, PyList(<<>>), PyList(<<"env:prod">>)}
    \cup {PyDict(sc) : sc \in SubmitConfigs}

ScraperConfigArgs == {PyDict(sc) : sc \in ScraperConfigs}

\* class attribute NAMESPACE of the check
NAMESPACE == "foo"

\* the tag a subclass's _finalize_tags_to_submit appends
FixedTag == "fixed:tag"

\* ---------------------------------------------------------- external mixin
NoConfig == [id |-> 0]

\* PrometheusScraperMixin.create_mixin_configuration: builds the scraper
\* configuration of one endpoint from the instance record layered on the
\* default instance settings and the default namespace.  `id` is the identity
\* of the freshly allocated configuration object.
create_mixin_configuration(instance, default_instances, default_namespace, id) ==
    LET namespace == DictGet(instance, "namespace", default_namespace)
        default_instance == DictGet(default_instances, namespace, <<>>)
    IN  [id |-> id,
         src |-> instance,
         namespace |-> namespace,
         metrics_mapper |-> DictGet(default_instance, "metrics", <<>>)
                            \o DictGet(instance, "metrics", <<>>),
         custom_tags |-> DictGet(instance, "tags", <<>>),
         exclude_labels |-> DictGet(instance, "exclude_labels", <<>>),
         labels_mapper |-> DictGet(instance, "labels_mapper", <<>>)]

\* ------------------------------------------------------------------- state
VARIABLES
    phase,              \* "new" | "ok" (constructed) | "failed" (__init__ raised)
    ctorArgs,           \* arguments __init__ was called with
    config_map,         \* self.config_map: endpoint -> scraper configuration
    default_instances,  \* self.default_instances
    default_namespace,  \* self.default_namespace
    builderCalls,       \* invocations of create_mixin_configuration so far
    calls,              \* check / get_scraper_config calls so far
    hist,               \* per endpoint history of get_scraper_config
    lastCall,           \* what the most recent check / get_scraper_config did
    hookOverridden,     \* TRUE: a subclass overrides _finalize_tags_to_submit
    lastSubmit          \* what the most recent _submit_* / _metric_tags did

vars == <<phase, ctorArgs, config_map, default_instances, default_namespace,
          builderCalls, calls, hist, lastCall, hookOverridden, lastSubmit>>

NoInstance == [absent |-> TRUE]

\* lastCall: the call, what the external mixin was set to do in it (mixin),
\* and what the call did
IdleCall ==
    [op |-> "none", instance |-> NoInstance, endpoint |-> None,
     mixin |-> [builder |-> "ok", process |-> "ok"],
     raised |-> None, config |-> NoConfig, built |-> 0,
     process |-> <<>>, steps |-> <<>>]

\* hist[e]: what the get_scraper_config calls for endpoint e did so far
NoHist ==
    [gets |-> 0,                 \* calls for the endpoint
     firstSeen |-> NoInstance,   \* instance record of the first call
     firstOutcome |-> None,      \* "returned" / "raised": how that call ended
     createdFrom |-> NoInstance, \* instance record of the first call that stored
     stores |-> 0,               \* times an entry was stored for the endpoint
     builds |-> 0,               \* builder invocations
     failedBuilds |-> 0,         \* builder invocations that raised
     buildsAfterReturn |-> 0,    \* builder invocations after a call returned
     returned |-> {}]            \* ids of the configurations returned

\* ------------------------------------------------------ get_scraper_config
\* Result of self.get_scraper_config(endpoint, instance) on config map cm.
\* nid is the identity the builder gives a new configuration; outcome is
\* what the external builder does ("ok" or the error it raises).
\* Variant: builds on every call and never stores what it built.
get_scraper_config_no_store(cm, endpoint, instance, dinst, dns, nid, outcome) ==
    IF outcome # "ok"
    THEN [raised |-> outcome, config |-> NoConfig, config_map |-> cm,
          built |-> 1, steps |-> <<"build">>]
    ELSE [raised |-> None,
          config |-> create_mixin_configuration(instance, dinst, dns, nid),
          config_map |-> cm, built |-> 1, steps |-> <<"build">>]

\* Variant: a cached entry is rebuilt and replaced when the call brings an
\* instance record other than the one the entry was built from.
get_scraper_config_replace(cm, endpoint, instance, dinst, dns, nid, outcome) ==
    IF endpoint \in DOMAIN cm /\ cm[endpoint].src = instance
    THEN [raised |-> None, config |-> cm[endpoint], config_map |-> cm,
          built |-> 0, steps |-> <<"cached">>]
    ELSE IF outcome # "ok"
         THEN [raised |-> outcome, config |-> NoConfig, config_map |-> cm,
               built |-> 1, steps |-> <<"build">>]
         ELSE LET config == create_mixin_configuration(instance, dinst, dns, nid)
              IN  [raised |-> None, config |-> config,
                   config_map |-> (endpoint :> config) @@ cm,
                   built |-> 1, steps |-> <<"build", "store">>]

get_scraper_config(cm, endpoint, instance, dinst, dns, nid, outcome) ==
    IF endpoint \in DOMAIN cm
    THEN [raised |-> None, config |-> cm[endpoint], config_map |-> cm,
          built |-> 0, steps |-> <<"cached">>]
    ELSE IF outcome # "ok"
         THEN [raised |-> outcome, config |-> NoConfig, config_map |-> cm,
               built |-> 1, steps |-> <<"build">>]
         ELSE LET config == create_mixin_configuration(instance, dinst, dns, nid)
              IN  [raised |-> None, config |-> config,
                   config_map |-> (endpoint :> config) @@ cm,
                   built |-> 1, steps |-> <<"build", "store">>]

\* ------------------------------------------------------------------- check
\* Result of self.check(instance); poutcome is what the external
\* self.process does ("ok" or the error it raises).  gscRaised is what
\* get_scraper_config raised, when it was called.
CheckBase(cm, endpoint) ==
    [endpoint |-> endpoint, config_map |-> cm, config |-> NoConfig,
     built |-> 0, process |-> <<>>, steps |-> <<>>,
     gscRaised |-> None, raised |-> None]

\* check with the given guards and process arguments: urlGuard / metricsGuard
\* say whether the two raise statements are present, unmapped is the value
\* passed as ignore_unmapped, wrap says whether a failure of the mixin is
\* re-raised as CheckException.
CheckVariant(cm, instance, dinst, dns, nid, outcome, poutcome,
             urlGuard, metricsGuard, unmapped, wrap) ==
    LET endpoint == DictGet(instance, "prometheus_url", None)
        base == CheckBase(cm, endpoint)
    IN  IF urlGuard /\ endpoint = None
        THEN [base EXCEPT !.raised = "CheckException"]
        ELSE
          LET r == get_scraper_config(cm, endpoint, instance, dinst, dns, nid, outcome)
              got == [base EXCEPT !.config_map = r.config_map, !.config = r.config,
                                  !.built = r.built, !.steps = r.steps,
                                  !.gscRaised = r.raised]
              err(e) == IF wrap THEN "CheckException" ELSE e
          IN  IF r.raised # None
              THEN [got EXCEPT !.raised = err(r.raised)]
              ELSE IF metricsGuard /\ Falsy(r.config.metrics_mapper)
                   THEN [got EXCEPT !.raised = "CheckException"]
                   ELSE [got EXCEPT
                           !.process = <<[endpoint |-> endpoint,
                                          scraper_config |-> r.config,
                                          ignore_unmapped |-> unmapped]>>,
                           !.steps = r.steps \o <<"process">>,
                           !.raised = IF poutcome = "ok" THEN None
                                      ELSE err(poutcome)]

\* Variant: the missing-URL test is absent.
check_no_url_guard(cm, instance, dinst, dns, nid, outcome, poutcome) ==
    CheckVariant(cm, instance, dinst, dns, nid, outcome, poutcome,
                 FALSE, TRUE, TRUE, FALSE)

\* Variant: the empty-metrics test is absent.
check_no_metrics_guard(cm, instance, dinst, dns, nid, outcome, poutcome) ==
    CheckVariant(cm, instance, dinst, dns, nid, outcome, poutcome,
                 TRUE, FALSE, TRUE, FALSE)

\* Variant: process is called with ignore_unmapped=False.
check_unmapped_false(cm, instance, dinst, dns, nid, outcome, poutcome) ==
    CheckVariant(cm, instance, dinst, dns, nid, outcome, poutcome,
                 TRUE, TRUE, FALSE, FALSE)

\* Variant: failures of the mixin are caught and re-raised as CheckException.
check_wraps_errors(cm, instance, dinst, dns, nid, outcome, poutcome) ==
    CheckVariant(cm, instance, dinst, dns, nid, outcome, poutcome,
                 TRUE, TRUE, TRUE, TRUE)

check(cm, instance, dinst, dns, nid, outcome, poutcome) ==
    LET endpoint == DictGet(instance, "prometheus_url", None)
        base == CheckBase(cm, endpoint)
    IN  IF endpoint = None
        THEN [base EXCEPT !.raised = "CheckException"]
        ELSE
          LET r == get_scraper_config(cm, endpoint, instance, dinst, dns, nid, outcome)
              got == [base EXCEPT !.config_map = r.config_map, !.config = r.config,
                                  !.built = r.built, !.steps = r.steps,
                                  !.gscRaised = r.raised]
          IN  IF r.raised # None
              THEN [got EXCEPT !.raised = r.raised]
              ELSE IF Falsy(r.config.metrics_mapper)
                   THEN [got EXCEPT !.raised = "CheckException"]
                   ELSE [got EXCEPT
                           !.process = <<[endpoint |-> endpoint,
                                          scraper_config |-> r.config,
                                          ignore_unmapped |-> TRUE]>>,
                           !.steps = r.steps \o <<"process">>,
                           !.raised = IF poutcome = "ok" THEN None ELSE poutcome]

\* ---------------------------------------------------------------- __init__
\* Result of GenericPrometheusCheck.__init__ with the given `instances`.
\* The loop calls self.get_scraper_config(instance) with one argument while
\* the method takes (endpoint, instance): the call raises TypeError before
\* the method body runs; iterating None raises TypeError as well.
init(instances) ==
    IF instances.py = "None"
    THEN [raised |-> "TypeError", config_map |-> <<>>]
    ELSE IF Len(instances.val) = 0
         THEN [raised |-> None, config_map |-> <<>>]
         ELSE [raised |-> "TypeError", config_map |-> <<>>]

\* ----------------------------------------------------------------- history
Stored(steps) == \E k \in DOMAIN steps : steps[k] = "store"

\* h after a get_scraper_config call with this instance that raised `raised`
\* (None: it returned r.config)
UpdateHist(h, instance, raised, r) ==
    [h EXCEPT
       !.gets = @ + 1,
       !.firstSeen = IF h.gets = 0 THEN instance ELSE @,
       !.firstOutcome = IF h.gets > 0 THEN @
                        ELSE IF raised = None THEN "returned" ELSE "raised",
       !.createdFrom = IF Stored(r.steps) /\ h.stores = 0 THEN instance ELSE @,
       !.stores = IF Stored(r.steps) THEN @ + 1 ELSE @,
       !.builds = @ + r.built,
       !.failedBuilds = IF r.built = 1 /\ raised # None THEN @ + 1 ELSE @,
       !.buildsAfterReturn = IF h.returned # {} THEN @ + r.built ELSE @,
       !.returned = IF raised = None THEN @ \cup {r.config.id} ELSE @]

\* ----------------------------------------------------------------- actions
IdleSubmit == [op |-> "none"]

Init ==
    /\ phase = "new"
    /\ ctorArgs = PyNone
    /\ config_map = <<>>
    /\ default_instances = <<>>
    /\ default_namespace = None
    /\ builderCalls = 0
    /\ calls = 0
    /\ hist = [e \in Endpoints |-> NoHist]
    /\ lastCall = IdleCall
    /\ hookOverridden = FALSE
    /\ lastSubmit = IdleSubmit

\* GenericPrometheusCheck(name, init_config, agentConfig, instances,
\*                        default_instances, default_namespace)
Construct(instances, settings) ==
    /\ phase = "new"
    /\ LET r == init(instances)
       IN  /\ phase' = IF r.raised = None THEN "ok" ELSE "failed"
           /\ config_map' = r.config_map
           /\ lastCall' = [IdleCall EXCEPT !.op = "__init__", !.raised = r.raised]
    /\ ctorArgs' = instances
    /\ default_instances' = settings.default_instances
    /\ default_namespace' = settings.default_namespace
    /\ UNCHANGED <<builderCalls, calls, hist, hookOverridden, lastSubmit>>

\* self.check(instance)
Check(instance, outcome, poutcome) ==
    /\ phase = "ok"
    /\ calls < MaxCalls
    /\ LET r == check(config_map, instance, default_instances, default_namespace,
                      builderCalls + 1, outcome, poutcome)
       IN  /\ config_map' = r.config_map
           /\ builderCalls' = builderCalls + r.built
           /\ hist' = IF r.steps # <<>> /\ r.endpoint \in Endpoints
                      THEN [hist EXCEPT ![r.endpoint] =
                                UpdateHist(@, instance, r.gscRaised, r)]
                      ELSE hist
           /\ lastCall' = [op |-> "check", instance |-> instance,
                           endpoint |-> r.endpoint,
                           mixin |-> [builder |-> outcome, process |-> poutcome],
                           raised |-> r.raised, config |-> r.config,
                           built |-> r.built, process |-> r.process,
                           steps |-> r.steps]
    /\ calls' = calls + 1
    /\ UNCHANGED <<phase, ctorArgs, default_instances, default_namespace,
                   hookOverridden, lastSubmit>>

\* self.get_scraper_config(endpoint, instance)
GetScraperConfig(endpoint, instance, outcome) ==
    /\ phase = "ok"
    /\ calls < MaxCalls
    /\ LET r == get_scraper_config(config_map, endpoint, instance, default_instances,
                                   default_namespace, builderCalls + 1, outcome)
       IN  /\ config_map' = r.config_map
           /\ builderCalls' = builderCalls + r.built
           /\ hist' = [hist EXCEPT ![endpoint] = UpdateHist(@, instance, r.raised, r)]
           /\ lastCall' = [op |-> "get_scraper_config", instance |-> instance,
                           endpoint |-> endpoint,
                           mixin |-> [builder |-> outcome, process |-> "ok"],
                           raised |-> r.raised, config |-> r.config,
                           built |-> r.built, process |-> <<>>,
                           steps |-> r.steps]
    /\ calls' = calls + 1
    /\ UNCHANGED <<phase, ctorArgs, default_instances, default_namespace,
                   hookOverridden, lastSubmit>>

Next ==
    \/ \E instances \in InstanceLists, settings \in DefaultSettings :
          Construct(instances, settings)
    \/ \E instance \in Instances, outcome \in Outcomes, poutcome \in Outcomes :
          Check(instance, outcome, poutcome)
    \/ \E endpoint \in Endpoints, instance \in Instances, outcome \in Outcomes :
          GetScraperConfig(endpoint, instance, outcome)

Spec == Init /\ [][Next]_vars

\* ------------------------------------------------------- tags and submits
Range(l) == {l[k] : k \in DOMAIN l}

\* '{}:{}'.format(a, b)
Format2(sep, a, b) == a \o sep \o b

\* _finalize_tags_to_submit as the class defines it
_finalize_tags_to_submit(_tags, metric_name, val, metric, custom_tags, hostname) ==
    _tags

\* _finalize_tags_to_submit of a subclass that appends a fixed tag
finalize_tags_override(_tags, metric_name, val, metric, custom_tags, hostname) ==
    Append(_tags, FixedTag)

\* self._finalize_tags_to_submit(...): method dispatch
CallFinalize(overridden, _tags, metric_name, val, metric, custom_tags, hostname) ==
    IF overridden
    THEN finalize_tags_override(_tags, metric_name, val, metric, custom_tags, hostname)
    ELSE _finalize_tags_to_submit(_tags, metric_name, val, metric, custom_tags, hostname)

\* the loop of _metric_tags over metric.label[k..], _tags so far
RECURSIVE LabelLoop(_, _, _, _)
LabelLoop(labels, k, scraper_config, _tags) ==
    IF k > Len(labels) THEN _tags
    ELSE
      LET label == labels[k]
          tag_name == IF label.name \in DOMAIN scraper_config["labels_mapper"]
                      THEN scraper_config["labels_mapper"][label.name]
                      ELSE label.name
      IN  IF label.name \notin Range(scraper_config["exclude_labels"])
          THEN LabelLoop(labels, k + 1, scraper_config,
                         Append(_tags, Format2(":", tag_name, label.value)))
          ELSE LabelLoop(labels, k + 1, scraper_config, _tags)

\* Variant of the loop: exclusion is tested on the mapped tag name.
RECURSIVE LabelLoopMapped(_, _, _, _)
LabelLoopMapped(labels, k, scraper_config, _tags) ==
    IF k > Len(labels) THEN _tags
    ELSE
      LET label == labels[k]
          tag_name == IF label.name \in DOMAIN scraper_config["labels_mapper"]
                      THEN scraper_config["labels_mapper"][label.name]
                      ELSE label.name
      IN  IF tag_name \notin Range(scraper_config["exclude_labels"])
          THEN LabelLoopMapped(labels, k + 1, scraper_config,
                               Append(_tags, Format2(":", tag_name, label.value)))
          ELSE LabelLoopMapped(labels, k + 1, scraper_config, _tags)

\* Variant: exclude_labels is tested on the mapped tag name.
_metric_tags_exclude_mapped(overridden, metric_name, val, metric, scraper_config, hostname) ==
    IF scraper_config.py # "dict"
    THEN [raised |-> "TypeError", computed |-> <<>>, tags |-> <<>>, hookCalls |-> 0]
    ELSE LET custom_tags == scraper_config.val["custom_tags"]
             _tags == LabelLoopMapped(metric.label, 1, scraper_config.val, custom_tags)
         IN  [raised |-> None, computed |-> _tags,
              tags |-> CallFinalize(overridden, _tags, metric_name, val, metric,
                                    custom_tags, hostname),
              hookCalls |-> 1]

\* Result of self._metric_tags(metric_name, val, metric, scraper_config,
\* hostname): subscripting None or a list with 'custom_tags' raises
\* TypeError before anything else happens.  computed is _tags as handed to
\* the hook, hookCalls the number of calls of the hook.
_metric_tags(overridden, metric_name, val, metric, scraper_config, hostname) ==
    IF scraper_config.py # "dict"
    THEN [raised |-> "TypeError", computed |-> <<>>, tags |-> <<>>, hookCalls |-> 0]
    ELSE LET custom_tags == scraper_config.val["custom_tags"]
             _tags == LabelLoop(metric.label, 1, scraper_config.val, custom_tags)
         IN  [raised |-> None, computed |-> _tags,
              tags |-> CallFinalize(overridden, _tags, metric_name, val, metric,
                                    custom_tags, hostname),
              hookCalls |-> 1]

\* Shared shape of _submit_rate / _submit_gauge / _submit_monotonic_count:
\* compute the tags with custom_tags in the scraper_config position, then
\* call the host API primitive `kind`.
Submit(kind, overridden, metric_name, val, metric, custom_tags, hostname) ==
    LET t == _metric_tags(overridden, metric_name, val, metric, custom_tags, hostname)
    IN  IF t.raised # None
        THEN [raised |-> t.raised, emissions |-> <<>>, computed |-> t.computed,
              hookCalls |-> t.hookCalls]
        ELSE [raised |-> None,
              emissions |-> <<[kind |-> kind,
                               name |-> Format2(".", NAMESPACE, metric_name),
                               value |-> val, tags |-> t.tags,
                               hostname |-> hostname]>>,
              computed |-> t.computed, hookCalls |-> t.hookCalls]

_submit_rate(overridden, metric_name, val, metric, custom_tags, hostname) ==
    Submit("rate", overridden, metric_name, val, metric, custom_tags, hostname)

_submit_gauge(overridden, metric_name, val, metric, custom_tags, hostname) ==
    Submit("gauge", overridden, metric_name, val, metric, custom_tags, hostname)

_submit_monotonic_count(overridden, metric_name, val, metric, custom_tags, hostname) ==
    Submit("monotonic_count", overridden, metric_name, val, metric, custom_tags, hostname)

SubmitRecord(op, metric_name, val, metric, custom_tags, hostname, r) ==
    [op |-> op, metric_name |-> metric_name, val |-> val, metric |-> metric,
     custom_tags |-> custom_tags, hostname |-> hostname, raised |-> r.raised,
     emissions |-> r.emissions, computed |-> r.computed, hookCalls |-> r.hookCalls]

\* self._submit_rate(metric_name, val, metric, custom_tags, hostname)
SubmitRate(metric_name, val, metric, custom_tags, hostname) ==
    /\ phase = "ok"
    /\ lastSubmit' = SubmitRecord("_submit_rate", metric_name, val, metric,
                        custom_tags, hostname,
                        _submit_rate(hookOverridden, metric_name, val, metric,
                                     custom_tags, hostname))
    /\ UNCHANGED <<phase, ctorArgs, config_map, default_instances,
                   default_namespace, builderCalls, calls, hist, lastCall,
                   hookOverridden>>

\* self._submit_gauge(metric_name, val, metric, custom_tags, hostname)
SubmitGauge(metric_name, val, metric, custom_tags, hostname) ==
    /\ phase = "ok"
    /\ lastSubmit' = SubmitRecord("_submit_gauge", metric_name, val, metric,
                        custom_tags, hostname,
                        _submit_gauge(hookOverridden, metric_name, val, metric,
                                      custom_tags, hostname))
    /\ UNCHANGED <<phase, ctorArgs, config_map, default_instances,
                   default_namespace, builderCalls, calls, hist, lastCall,
                   hookOverridden>>

\* self._submit_monotonic_count(metric_name, val, metric, custom_tags, hostname)
SubmitMonotonicCount(metric_name, val, metric, custom_tags, hostname) ==
    /\ phase = "ok"
    /\ lastSubmit' = SubmitRecord("_submit_monotonic_count", metric_name, val,
                        metric, custom_tags, hostname,
                        _submit_monotonic_count(hookOverridden, metric_name, val,
                                                metric, custom_tags, hostname))
    /\ UNCHANGED <<phase, ctorArgs, config_map, default_instances,
                   default_namespace, builderCalls, calls, hist, lastCall,
                   hookOverridden>>

\* self._metric_tags(metric_name, val, metric, scraper_config, hostname)
MetricTags(metric_name, val, metric, scraper_config, hostname) ==
    /\ phase = "ok"
    /\ LET r == _metric_tags(hookOverridden, metric_name, val, metric,
                            scraper_config, hostname)
       IN  lastSubmit' = [op |-> "_metric_tags", metric_name |-> metric_name,
                          val |-> val, metric |-> metric,
                          custom_tags |-> scraper_config, hostname |-> hostname,
                          raised |-> r.raised, emissions |-> <<>>,
                          computed |-> r.computed, tags |-> r.tags,
                          hookCalls |-> r.hookCalls]
    /\ UNCHANGED <<phase, ctorArgs, config_map, default_instances,
                   default_namespace, builderCalls, calls, hist, lastCall,
                   hookOverridden>>

\* A check object constructed with instances=[] , of the class itself or of
\* a subclass overriding the hook; its submission methods are then called.
InitSubmit ==
    /\ phase = "ok"
    /\ ctorArgs = PyList(<<>>)
    /\ config_map = <<>>
    /\ default_instances = <<>>
    /\ default_namespace = None
    /\ builderCalls = 0
    /\ calls = 0
    /\ hist = [e \in Endpoints |-> NoHist]
    /\ lastCall = [IdleCall EXCEPT !.op = "__init__"]
    /\ hookOverridden \in BOOLEAN
    /\ lastSubmit = IdleSubmit

NextSubmit ==
    \/ \E n \in MetricNames, v \in Values, m \in Samples,
          ct \in CustomTagsArgs, h \in Hostnames : SubmitRate(n, v, m, ct, h)
    \/ \E n \in MetricNames, v \in Values, m \in Samples,
          ct \in CustomTagsArgs, h \in Hostnames : SubmitGauge(n, v, m, ct, h)
    \/ \E n \in MetricNames, v \in Values, m \in Samples,
          ct \in CustomTagsArgs, h \in Hostnames : SubmitMonotonicCount(n, v, m, ct, h)
    \/ \E n \in MetricNames, v \in Values, m \in Samples,
          sc \in ScraperConfigArgs, h \in Hostnames : MetricTags(n, v, m, sc, h)

SubmitSpec == InitSubmit /\ [][NextSubmit]_vars

\* ===================================================== claims: config map
IsCheck == lastCall.op = "check"

HasUrl(instance) == "prometheus_url" \in DOMAIN instance

\* the call resolved a configuration (cached or newly built)
Resolved == lastCall.config.id # 0

\* C1 as stated: for every instance record without a prometheus_url key,
\* check(instance) fails with a ConfigurationError and process is never
\* invoked during the call.
C1Original ==
    (IsCheck /\ ~HasUrl(lastCall.instance))
        => /\ lastCall.raised = "ConfigurationError"
           /\ lastCall.process = <<>>

\* C1 amended: for every instance record without a prometheus_url key,
\* check(instance) fails with a CheckException, process is never invoked
\* during the call, and neither the builder nor the config map is touched.
C1Theorem ==
    (IsCheck /\ ~HasUrl(lastCall.instance))
        => /\ lastCall.raised = "CheckException"
           /\ lastCall.process = <<>>
           /\ lastCall.built = 0
           /\ lastCall.steps = <<>>

C1Witness ==
    /\ IsCheck
    /\ ~HasUrl(lastCall.instance)
    /\ ~Falsy(lastCall.instance.metrics)
    /\ lastCall.raised = "CheckException"
    /\ config_map # <<>>

\* C2 as stated: whenever the configuration resolved for the instance's
\* endpoint (cached or newly built) has an empty metrics_mapper,
\* check(instance) fails with a ConfigurationError and process is not invoked.
C2Original ==
    (IsCheck /\ Resolved /\ Falsy(lastCall.config.metrics_mapper))
        => /\ lastCall.raised = "ConfigurationError"
           /\ lastCall.process = <<>>

\* C2 amended: whenever the configuration resolved for the instance's
\* endpoint (cached or newly built) has an empty metrics_mapper,
\* check(instance) fails with a CheckException and process is not invoked;
\* the resolved configuration is the one in the map.
C2Theorem ==
    (IsCheck /\ Resolved /\ Falsy(lastCall.config.metrics_mapper))
        => /\ lastCall.raised = "CheckException"
           /\ lastCall.process = <<>>
           /\ lastCall.endpoint \in DOMAIN config_map
           /\ config_map[lastCall.endpoint] = lastCall.config

\* a check whose own instance lists a metric, answered from a cached
\* configuration without metrics
C2Witness ==
    /\ IsCheck
    /\ Resolved
    /\ lastCall.steps = <<"cached">>
    /\ Falsy(lastCall.config.metrics_mapper)
    /\ ~Falsy(lastCall.instance.metrics)
    /\ lastCall.raised = "CheckException"

UsedConfigFrom(field) ==
    (IsCheck /\ lastCall.process # <<>>)
        => lastCall.process[1].scraper_config.src = hist[lastCall.endpoint][field]

\* C4 as stated: the map holds at most one entry per endpoint, an entry is
\* never removed or replaced, and every check for the endpoint uses the
\* configuration built from the first instance record seen for the endpoint.
C4Original ==
    /\ \A e \in DOMAIN config_map :
          /\ hist[e].stores = 1
          /\ config_map[e].src = hist[e].firstSeen
    /\ UsedConfigFrom("firstSeen")

\* C4 amended: the map holds at most one entry per endpoint, an entry is
\* never removed or replaced, and every check for the endpoint uses the
\* configuration built from the instance record of the call that created the
\* entry, i.e. the first instance record for which the builder returned.
C4Theorem ==
    /\ DOMAIN config_map = {e \in Endpoints : hist[e].stores > 0}
    /\ \A e \in DOMAIN config_map :
          /\ hist[e].stores = 1
          /\ config_map[e].src = hist[e].createdFrom
          /\ hist[e].firstOutcome = "returned"
                => config_map[e].src = hist[e].firstSeen
    /\ UsedConfigFrom("createdFrom")

\* a check served from an entry created by an earlier call with another
\* instance record, after the first build for the endpoint had failed
C4Witness ==
    /\ IsCheck
    /\ lastCall.process # <<>>
    /\ lastCall.steps = <<"cached", "process">>
    /\ lastCall.instance # lastCall.config.src
    /\ hist[lastCall.endpoint].firstOutcome = "raised"
    /\ hist[lastCall.endpoint].firstSeen # hist[lastCall.endpoint].createdFrom

\* C5: a check of an instance with a prometheus_url whose resolved
\* configuration has a non-empty metrics_mapper invokes process exactly once,
\* after the configuration was resolved, with the endpoint, the configuration
\* stored in the map for the endpoint, and ignore_unmapped = true.
C5Theorem ==
    (IsCheck /\ Resolved /\ ~Falsy(lastCall.config.metrics_mapper))
        => /\ Len(lastCall.process) = 1
           /\ lastCall.process[1].endpoint = lastCall.instance.prometheus_url
           /\ lastCall.endpoint \in DOMAIN config_map
           /\ lastCall.process[1].scraper_config = config_map[lastCall.endpoint]
           /\ lastCall.process[1].ignore_unmapped = TRUE
           /\ lastCall.steps \in {<<"cached", "process">>,
                                  <<"build", "store", "process">>}

C5Witness ==
    /\ IsCheck
    /\ lastCall.steps = <<"build", "store", "process">>
    /\ lastCall.raised = None
    /\ Cardinality(DOMAIN config_map) = 2

\* C9: constructing the check with a list of instances completes without
\* error and leaves one configuration in the map for the endpoint of each
\* supplied instance.
C9Claim ==
    (phase # "new" /\ ctorArgs.py = "list")
        => /\ phase = "ok"
           /\ \A k \in DOMAIN ctorArgs.val :
                 HasUrl(ctorArgs.val[k])
                    => ctorArgs.val[k].prometheus_url \in DOMAIN config_map

\* what the last check did with the mixin
BuilderFailed(c) == c.built = 1 /\ c.mixin.builder # "ok"
ProcessFailed(c) == c.process # <<>> /\ c.mixin.process # "ok"

\* C10: a failure raised by the mixin leaves check as the error the mixin
\* raised.  When the builder fails no entry is stored (the map is unchanged,
\* so a later call builds again); when process fails the map holds the entry
\* resolved for the endpoint and every other entry is as before the call.  A
\* call for an endpoint without an entry always invokes the builder.
C10Theorem ==
    [][ (lastCall'.op = "check" /\ calls' = calls + 1) =>
          /\ BuilderFailed(lastCall') =>
                /\ lastCall'.raised = lastCall'.mixin.builder
                /\ config_map' = config_map
                /\ lastCall'.endpoint \notin DOMAIN config_map'
                /\ lastCall'.process = <<>>
          /\ ProcessFailed(lastCall') =>
                /\ lastCall'.raised = lastCall'.mixin.process
                /\ DOMAIN config_map' = DOMAIN config_map \cup {lastCall'.endpoint}
                /\ config_map'[lastCall'.endpoint] = lastCall'.process[1].scraper_config
                /\ \A e \in DOMAIN config_map : config_map'[e] = config_map[e]
          /\ (lastCall'.endpoint # None /\ lastCall'.endpoint \notin DOMAIN config_map)
                => lastCall'.built = 1
      ]_vars

\* process failed in a check that rebuilt a configuration whose first build
\* had failed, with another entry already in the map
C10Witness ==
    /\ IsCheck
    /\ ProcessFailed(lastCall)
    /\ lastCall.built = 1
    /\ hist[lastCall.endpoint].failedBuilds = 1
    /\ Cardinality(DOMAIN config_map) = 2

\* ================================================= claims: tags and submits
\* the tag list C6 describes: custom_tags, then one tag per label whose name
\* is not excluded, named by labels_mapper when the label name is a key
ExpectedTags(metric, sc) ==
    LET Keep(l) == \A k \in DOMAIN sc.exclude_labels : sc.exclude_labels[k] # l.name
        kept == SelectSeq(metric.label, Keep)
        Name(l) == IF l.name \in DOMAIN sc.labels_mapper
                   THEN sc.labels_mapper[l.name] ELSE l.name
    IN  sc.custom_tags \o [k \in 1..Len(kept) |-> Name(kept[k]) \o ":" \o kept[k].value]

\* C6: with the default hook, _metric_tags returns the configuration's
\* custom_tags in order followed by one tag <name>:<value> per label of the
\* sample, in label order, whose original name is not in exclude_labels,
\* <name> being labels_mapper[label name] when mapped and the label name
\* otherwise; an excluded label yields no tag even when it is mapped.
C6Theorem ==
    (lastSubmit.op = "_metric_tags" /\ ~hookOverridden)
        => LET sc == lastSubmit.custom_tags.val
               labels == lastSubmit.metric.label
               excluded == {k \in DOMAIN labels :
                               labels[k].name \in Range(sc.exclude_labels)}
           IN  /\ lastSubmit.raised = None
               /\ lastSubmit.tags = ExpectedTags(lastSubmit.metric, sc)
               /\ Len(lastSubmit.tags) =
                     Len(sc.custom_tags) + Len(labels) - Cardinality(excluded)
               /\ SubSeq(lastSubmit.tags, 1, Len(sc.custom_tags)) = sc.custom_tags

\* the example of the specification: labels {instance: a, job: x},
\* exclude_labels [job], labels_mapper {instance: host}, custom tags [env:prod]
C6Witness ==
    /\ lastSubmit.op = "_metric_tags"
    /\ ~hookOverridden
    /\ lastSubmit.metric.label = <<[name |-> "instance", value |-> "a"],
                                   [name |-> "job", value |-> "x"]>>
    /\ lastSubmit.custom_tags.val =
          [custom_tags |-> <<"env:prod">>, exclude_labels |-> <<"job">>,
           labels_mapper |-> [instance |-> "host"]]
    /\ lastSubmit.tags = <<"env:prod", "host:a">>

IsSubmit ==
    lastSubmit.op \in {"_submit_rate", "_submit_gauge", "_submit_monotonic_count"}

KindOf(op) ==
    CASE op = "_submit_rate" -> "rate"
      [] op = "_submit_gauge" -> "gauge"
      [] op = "_submit_monotonic_count" -> "monotonic_count"

\* C7: each of _submit_rate, _submit_gauge and _submit_monotonic_count,
\* called with the extra tags and the hostname supplied or omitted, results
\* in exactly one emission, of the matching kind, named
\* <namespace>.<metric_name>, carrying the given value, the given hostname
\* and the tag list _metric_tags computes for the sample.
C7Claim ==
    IsSubmit
        => /\ lastSubmit.raised = None
           /\ Len(lastSubmit.emissions) = 1
           /\ lastSubmit.emissions[1].kind = KindOf(lastSubmit.op)
           /\ lastSubmit.emissions[1].name = "foo." \o lastSubmit.metric_name
           /\ lastSubmit.emissions[1].value = lastSubmit.val
           /\ lastSubmit.emissions[1].hostname = lastSubmit.hostname
           /\ ~hookOverridden => lastSubmit.emissions[1].tags = lastSubmit.computed

\* C8: the hook is applied exactly once to every submission of every kind:
\* with the default hook the emitted tags are the computed tags, with a hook
\* that appends a fixed tag the emission carries that tag and all the
\* computed ones.
C8Claim ==
    IsSubmit
        => /\ lastSubmit.hookCalls = 1
           /\ Len(lastSubmit.emissions) = 1
           /\ ~hookOverridden => lastSubmit.emissions[1].tags = lastSubmit.computed
           /\ hookOverridden =>
                 lastSubmit.emissions[1].tags = Append(lastSubmit.computed, FixedTag)

====
